---- MODULE Spec2Model ----
(***************************************************************************)
(* Point-of-sale record keeper: the inventory and sales tables of pos.db   *)
(* and the operations of pos_frontend.py / pos_system.py that read and     *)
(* write them.  get_connection() opens PostgreSQL when the environment     *)
(* names one (use_pg) and SQLite otherwise; the statements are the same on *)
(* both, and PostgreSQL enforces the REFERENCES of sales.item_id, which    *)
(* SQLite does not.  The write lock of the connections is SQLite's.        *)
(*                                                                         *)
(* Every *_db operator takes the tables as a record                        *)
(*   db = [inventory, sales, sqlite_sequence]                              *)
(* and returns [db |-> the tables after the call, msg |-> its message].    *)
(* A message is a tuple: the text first, then the values formatted in it.  *)
(* Prices are whole numbers, for which the REAL product price * quantity   *)
(* is exact.                                                               *)
(***************************************************************************)
EXTENDS Integers, Sequences, FiniteSets, TLC

\* ---------------------------------------------------------------- bounds
MaxItems == 2
MaxSales == 2
MaxQty == 2
MaxClock == 1
\* Requests racing on one sale move an item's quantity without limit: no
\* request is taken while a quantity is beyond this.
MaxStock == 4

ItemIds == 1..MaxItems
SaleIds == 1..MaxSales
Prices == {2, 3}
\* int(qty_str) accepts any integer: negative and zero quantities included
Quantities == -1..MaxQty
Times == 0..MaxClock
Conns == {"c1", "c2"}
\* A name is the sequence of its characters.
Names == {<<"a", "b">>, <<" ", "B", " ">>, <<" ">>}
\* The one name and the one price of the items whose sales are followed.
LedgerNames == {<<"a", "b">>}
LedgerPrices == {2}
\* The paths an upload is stored under (uploads/<uuid4>.<ext>).
Images == {"uploads/1.png"}

\* Python's None, and a value that is not None, for an optional argument
None == <<>>
Some(v) == <<v>>
\* fetchone() returning None: the id has no row
NoRow == [absent |-> TRUE]
Optional(S) == {None} \cup {Some(v) : v \in S}

VARIABLES
    inventory,        \* table inventory: id -> row or NoRow
    sales,            \* table sales: id -> row or NoRow
    sqlite_sequence,  \* AUTOINCREMENT bookkeeping: table -> largest id ever used
    clock,            \* datetime.now(), in seconds
    use_pg,           \* get_connection(): the environment names a PostgreSQL database
    baseline,         \* history: item -> quantity at creation, None once edited
    removed,          \* history: the sale ids delete_sale_db has removed
    pc, req, fetched, tx, lock   \* the connections of concurrent requests

dbvars == <<inventory, sales, sqlite_sequence>>
histvars == <<baseline, removed>>
connvars == <<pc, req, fetched, tx, lock>>
vars == <<inventory, sales, sqlite_sequence, clock, use_pg, baseline, removed,
          pc, req, fetched, tx, lock>>

DB == [inventory |-> inventory, sales |-> sales, sqlite_sequence |-> sqlite_sequence]

\* ------------------------------------------------------------- the schema
\* CREATE TABLE IF NOT EXISTS inventory / sales on an empty database file.
create_tables ==
    [inventory |-> [i \in ItemIds |-> NoRow],
     sales |-> [s \in SaleIds |-> NoRow],
     sqlite_sequence |-> [inventory |-> 0, sales |-> 0]]

HasItem(db, item_id) == item_id \in ItemIds /\ db.inventory[item_id] # NoRow
HasSale(db, sale_id) == sale_id \in SaleIds /\ db.sales[sale_id] # NoRow

MaxRowid(table) ==
    LET used == {k \in DOMAIN table : table[k] # NoRow}
    IN  IF used = {} THEN 0 ELSE CHOOSE k \in used : \A j \in used : j <= k

\* INTEGER PRIMARY KEY without AUTOINCREMENT: one more than the largest rowid
\* now in the table, so the id of a deleted last row is handed out again.
RowidReused(db, table) == MaxRowid(db[table]) + 1

\* INTEGER PRIMARY KEY AUTOINCREMENT: one more than the largest rowid the table
\* ever held (sqlite_sequence), never an id used before.
NextRowid(db, table) ==
    LET m == MaxRowid(db[table])
        q == db.sqlite_sequence[table]
    IN  (IF m > q THEN m ELSE q) + 1

\* ------------------------------------------------------- Catalogue Store
\* str.strip(): the string without its leading and trailing whitespace.
RECURSIVE lstrip(_)
lstrip(s) == IF s # <<>> /\ Head(s) = " " THEN lstrip(Tail(s)) ELSE s
RECURSIVE rstrip(_)
rstrip(s) == IF s # <<>> /\ s[Len(s)] = " " THEN rstrip(SubSeq(s, 1, Len(s) - 1)) ELSE s
strip(s) == rstrip(lstrip(s))

\* INSERT INTO inventory (name, price, quantity, image_path); commit.
\* favorite takes its DEFAULT 0.
add_item_with_image(db, name, price, quantity, image_path) ==
    LET id == NextRowid(db, "inventory")
    IN  [db |-> [db EXCEPT !.inventory[id] =
                               [name |-> strip(name), price |-> price, quantity |-> quantity,
                                image_path |-> image_path, favorite |-> 0],
                           !.sqlite_sequence.inventory = id],
         msg |-> <<"added">>]

\* pos_frontend.py add_item (POST): the name must not be empty after strip();
\* price and quantity are whatever float() and int() parsed.
add_item(db, name, price, quantity, image_path) ==
    IF strip(name) = <<>> THEN [db |-> db, msg |-> <<"Item name cannot be empty.">>]
    ELSE [db |-> add_item_with_image(db, strip(name), price, quantity, image_path).db,
          msg |-> <<"Item added successfully.", strip(name)>>]

\* pos_system.py add_item: INSERT INTO inventory (name, price, quantity); image_path
\* is NULL.
add_item_cli(db, name, price, quantity) ==
    LET id == NextRowid(db, "inventory")
    IN  [db |-> [db EXCEPT !.inventory[id] =
                               [name |-> strip(name), price |-> price, quantity |-> quantity,
                                image_path |-> None, favorite |-> 0],
                           !.sqlite_sequence.inventory = id],
         msg |-> <<"Item added", name, price, quantity>>]

\* pos_system.py main_menu, choice 1: the name is stripped and must not be
\* empty; then add_item.
main_menu_add(db, name, price, quantity) ==
    IF strip(name) = <<>> THEN [db |-> db, msg |-> <<"Item name cannot be empty.">>]
    ELSE add_item_cli(db, strip(name), price, quantity)

\* An update that carries a new price into the totals of the item's sales.
update_item_db_reprice(db, item_id, name, price, quantity, image_path) ==
    IF name = None /\ price = None /\ quantity = None /\ image_path = None
    THEN [db |-> db, msg |-> <<"no fields">>]
    ELSE IF ~HasItem(db, item_id) THEN [db |-> db, msg |-> <<"updated">>]
    ELSE LET old == db.inventory[item_id]
             new == [old EXCEPT
                        !.name = IF name = None THEN @ ELSE strip(name[1]),
                        !.price = IF price = None THEN @ ELSE price[1],
                        !.quantity = IF quantity = None THEN @ ELSE quantity[1],
                        !.image_path = IF image_path = None THEN @ ELSE image_path]
         IN  [db |-> [db EXCEPT !.inventory[item_id] = new,
                                !.sales = [s \in SaleIds |->
                                    IF HasSale(db, s) /\ db.sales[s].item_id = item_id
                                    THEN [db.sales[s] EXCEPT
                                             !.total_price = new.price * db.sales[s].quantity]
                                    ELSE db.sales[s]]],
              msg |-> <<"updated">>]

\* UPDATE inventory SET <the fields that are not None> WHERE id = ?; commit.
update_item_db(db, item_id, name, price, quantity, image_path) ==
    IF name = None /\ price = None /\ quantity = None /\ image_path = None
    THEN [db |-> db, msg |-> <<"no fields">>]
    ELSE IF ~HasItem(db, item_id) THEN [db |-> db, msg |-> <<"updated">>]
    ELSE LET old == db.inventory[item_id]
             new == [old EXCEPT
                        !.name = IF name = None THEN @ ELSE strip(name[1]),
                        !.price = IF price = None THEN @ ELSE price[1],
                        !.quantity = IF quantity = None THEN @ ELSE quantity[1],
                        !.image_path = IF image_path = None THEN @ ELSE image_path]
         IN  [db |-> [db EXCEPT !.inventory[item_id] = new], msg |-> <<"updated">>]

\* A sale row refers to the item.
Referenced(db, item_id) ==
    \E s \in SaleIds : HasSale(db, s) /\ db.sales[s].item_id = item_id

\* SELECT name ...; DELETE FROM inventory WHERE id = ?; commit.  SQLite does
\* not enforce the FOREIGN KEY of sales (no PRAGMA foreign_keys).  PostgreSQL
\* (is_pg) enforces item_id REFERENCES inventory(id): the DELETE of an item
\* that a sale refers to raises, and nothing is committed.
delete_item(db, item_id, is_pg) ==
    IF ~HasItem(db, item_id) THEN [db |-> db, msg |-> <<"No item found with ID", item_id>>]
    ELSE IF is_pg /\ Referenced(db, item_id)
    THEN [db |-> db, msg |-> <<"ForeignKeyViolation">>]
    ELSE [db |-> [db EXCEPT !.inventory[item_id] = NoRow],
          msg |-> <<"deleted from inventory.", db.inventory[item_id].name>>]

\* ----------------------------------------------------------- Sale Ledger
\* The statements a call executes after its SELECTs, in the order of the code,
\* each a tuple: the statement, then its parameters.
UpdateQuantity(item_id, delta) == <<"UPDATE inventory SET quantity = quantity + ?", item_id, delta>>
InsertSales(item_id, quantity, timestamp, total_price) ==
    <<"INSERT INTO sales", item_id, quantity, timestamp, total_price>>
UpdateCancelled(sale_id, cancelled) == <<"UPDATE sales SET cancelled = ?", sale_id, cancelled>>
DeleteSales(sale_id) == <<"DELETE FROM sales", sale_id>>
InsertInventory(name, price, quantity, image_path) ==
    <<"INSERT INTO inventory", name, price, quantity, image_path>>
UpdateInventory(item_id, name, price, quantity, image_path) ==
    <<"UPDATE inventory SET <fields>", item_id, name, price, quantity, image_path>>
UpdateRow(item_id, name, price, quantity) ==
    <<"UPDATE inventory SET name = ?, price = ?, quantity = ?", item_id, name, price, quantity>>
UpdateFavorite(item_id, favorite) == <<"UPDATE inventory SET favorite = ?", item_id, favorite>>
DeleteInventory(item_id) == <<"DELETE FROM inventory", item_id>>

\* One statement on the tables.  An UPDATE ... WHERE id = ? of an id that has
\* no row changes nothing.  An INSERT takes AUTOINCREMENT's id, and cancelled
\* takes its DEFAULT 0.
Execute(db, st) ==
    CASE st[1] = "UPDATE inventory SET quantity = quantity + ?" ->
            IF HasItem(db, st[2])
            THEN [db EXCEPT !.inventory[st[2]].quantity = @ + st[3]]
            ELSE db
      [] st[1] = "INSERT INTO sales" ->
            LET id == NextRowid(db, "sales")
            IN  [db EXCEPT !.sales[id] = [item_id |-> st[2], quantity |-> st[3],
                                          timestamp |-> st[4], total_price |-> st[5],
                                          cancelled |-> FALSE],
                           !.sqlite_sequence.sales = id]
      [] st[1] = "UPDATE sales SET cancelled = ?" ->
            IF HasSale(db, st[2])
            THEN [db EXCEPT !.sales[st[2]].cancelled = st[3]]
            ELSE db
      [] st[1] = "DELETE FROM sales" ->
            IF HasSale(db, st[2]) THEN [db EXCEPT !.sales[st[2]] = NoRow] ELSE db
      [] st[1] = "INSERT INTO inventory" ->
            add_item_with_image(db, st[2], st[3], st[4], st[5]).db
      [] st[1] = "UPDATE inventory SET <fields>" ->
            update_item_db(db, st[2], st[3], st[4], st[5], st[6]).db
      [] st[1] = "UPDATE inventory SET name = ?, price = ?, quantity = ?" ->
            IF HasItem(db, st[2])
            THEN [db EXCEPT !.inventory[st[2]] =
                     [@ EXCEPT !.name = st[3], !.price = st[4], !.quantity = st[5]]]
            ELSE db
      [] st[1] = "UPDATE inventory SET favorite = ?" ->
            IF HasItem(db, st[2]) THEN [db EXCEPT !.inventory[st[2]].favorite = st[3]] ELSE db
      [] st[1] = "DELETE FROM inventory" ->
            IF HasItem(db, st[2]) THEN [db EXCEPT !.inventory[st[2]] = NoRow] ELSE db

\* The statement raises: on PostgreSQL, the DELETE of an item that a sale
\* refers to (psycopg2's ForeignKeyViolation).
Raises(db, st) ==
    /\ use_pg
    /\ st[1] = "DELETE FROM inventory"
    /\ Referenced(db, st[2])

\* The statements of one call, then conn.commit().
RECURSIVE ExecuteAll(_, _)
ExecuteAll(db, sts) ==
    IF sts = <<>> THEN db ELSE ExecuteAll(Execute(db, Head(sts)), Tail(sts))

\* A sale that does not compare the stock with the quantity asked for.
record_sale_db_msg_no_stock_check(row, item_id, quantity, now) ==
    IF row = NoRow THEN <<"Item with ID does not exist.", item_id>>
    ELSE IF quantity <= 0 THEN <<"Quantity must be positive.">>
    ELSE <<"Sold", quantity, row.price * quantity, now>>

\* A sale that does not look at the sign of the quantity asked for.
record_sale_db_msg_any_sign(row, item_id, quantity, now) ==
    IF row = NoRow THEN <<"Item with ID does not exist.", item_id>>
    ELSE IF row.quantity < quantity THEN <<"Insufficient stock. Available:", row.quantity>>
    ELSE <<"Sold", quantity, row.price * quantity, now>>

\* record_sale_db: the outcome of the SELECT and the three checks on its row.
record_sale_db_msg(row, item_id, quantity, now) ==
    IF row = NoRow THEN <<"Item with ID does not exist.", item_id>>
    ELSE IF quantity <= 0 THEN <<"Quantity must be positive.">>
    ELSE IF row.quantity < quantity THEN <<"Insufficient stock. Available:", row.quantity>>
    ELSE <<"Sold", quantity, row.price * quantity, now>>

\* A sale that records the unit price as its total.
record_sale_db_writes_unit_total(row, item_id, quantity, now) ==
    <<UpdateQuantity(item_id, 0 - quantity), InsertSales(item_id, quantity, now, row.price)>>

\* record_sale_db: what it writes when the checks pass.
record_sale_db_writes(row, item_id, quantity, now) ==
    <<UpdateQuantity(item_id, 0 - quantity),
      InsertSales(item_id, quantity, now, row.price * quantity)>>

\* pos_frontend.py record_sale_db, `now` being datetime.now().
record_sale_db(db, item_id, quantity, now) ==
    LET row == IF item_id \in ItemIds THEN db.inventory[item_id] ELSE NoRow
        msg == record_sale_db_msg(row, item_id, quantity, now)
    IN  IF msg[1] # "Sold" THEN [db |-> db, msg |-> msg]
        ELSE [db |-> ExecuteAll(db, record_sale_db_writes(row, item_id, quantity, now)),
              msg |-> msg]

\* pos_system.py record_sale: what it writes when the checks pass.
record_sale_writes(row, item_id, quantity, now) ==
    <<UpdateQuantity(item_id, 0 - quantity),
      InsertSales(item_id, quantity, now, row.price * quantity)>>

\* pos_system.py record_sale: the same statements, printed in other words.
record_sale(db, item_id, quantity, now) ==
    LET row == IF item_id \in ItemIds THEN db.inventory[item_id] ELSE NoRow
    IN  IF row = NoRow THEN [db |-> db, msg |-> <<"No item found with ID", item_id>>]
        ELSE IF quantity <= 0 THEN [db |-> db, msg |-> <<"Quantity must be positive.">>]
        ELSE IF row.quantity < quantity
        THEN [db |-> db, msg |-> <<"Insufficient stock. Available quantity:", row.quantity>>]
        ELSE [db |-> ExecuteAll(db, record_sale_writes(row, item_id, quantity, now)),
              msg |-> <<"Sold", quantity, row.price * quantity, now>>]

\* A cancel that does not look at the cancelled flag.
cancel_sale_db_msg_unchecked(row) ==
    IF row = NoRow THEN <<"Sale not found.">>
    ELSE <<"Sale cancelled and inventory restored.">>

\* cancel_sale_db: the outcome of the SELECT and the checks on its row.
cancel_sale_db_msg(row) ==
    IF row = NoRow THEN <<"Sale not found.">>
    ELSE IF row.cancelled THEN <<"Sale has already been cancelled.">>
    ELSE <<"Sale cancelled and inventory restored.">>

\* A cancel that sets the flag and gives nothing back.
cancel_sale_db_writes_flag_only(row, sale_id) == <<UpdateCancelled(sale_id, TRUE)>>

\* cancel_sale_db: what it writes when the checks pass.
cancel_sale_db_writes(row, sale_id) ==
    <<UpdateCancelled(sale_id, TRUE), UpdateQuantity(row.item_id, row.quantity)>>

\* A cancel that refuses a sale whose item has no row.
cancel_sale_db_item_required(db, sale_id) ==
    LET row == IF sale_id \in SaleIds THEN db.sales[sale_id] ELSE NoRow
        msg == cancel_sale_db_msg(row)
    IN  IF msg[1] # "Sale cancelled and inventory restored." THEN [db |-> db, msg |-> msg]
        ELSE IF ~HasItem(db, row.item_id)
        THEN [db |-> db, msg |-> <<"Associated item not found.">>]
        ELSE [db |-> ExecuteAll(db, cancel_sale_db_writes(row, sale_id)), msg |-> msg]

\* pos_frontend.py cancel_sale_db.
cancel_sale_db(db, sale_id) ==
    LET row == IF sale_id \in SaleIds THEN db.sales[sale_id] ELSE NoRow
        msg == cancel_sale_db_msg(row)
    IN  IF msg[1] # "Sale cancelled and inventory restored." THEN [db |-> db, msg |-> msg]
        ELSE [db |-> ExecuteAll(db, cancel_sale_db_writes(row, sale_id)), msg |-> msg]

\* delete_sale_db: the outcome of the SELECT.
delete_sale_db_msg(row) ==
    IF row = NoRow THEN <<"Sale not found.">>
    ELSE IF ~row.cancelled THEN <<"Sale deleted permanently and inventory adjusted.">>
    ELSE <<"Sale deleted permanently.">>

\* A delete that gives the quantity back whatever the flag says.
delete_sale_db_writes_always_restore(row, sale_id) ==
    <<UpdateQuantity(row.item_id, row.quantity), DeleteSales(sale_id)>>

\* delete_sale_db: what it writes for the row it found.
delete_sale_db_writes(row, sale_id) ==
    (IF ~row.cancelled THEN <<UpdateQuantity(row.item_id, row.quantity)>> ELSE <<>>)
        \o <<DeleteSales(sale_id)>>

delete_sale_db(db, sale_id) ==
    LET row == IF sale_id \in SaleIds THEN db.sales[sale_id] ELSE NoRow
    IN  IF row = NoRow THEN [db |-> db, msg |-> delete_sale_db_msg(row)]
        ELSE [db |-> ExecuteAll(db, delete_sale_db_writes(row, sale_id)),
              msg |-> delete_sale_db_msg(row)]

\* An uncancel that does not compare the item's quantity with the sale's.
uncancel_sale_db_msg_no_stock_check(row, item_row) ==
    IF row = NoRow THEN <<"Sale not found.">>
    ELSE IF ~row.cancelled THEN <<"Sale is not cancelled.">>
    ELSE IF item_row = NoRow THEN <<"Associated item not found.">>
    ELSE <<"Sale un-cancelled and inventory updated.">>

\* (The source spells "un-cancelled" with the non-breaking hyphen U+2011.)
\* uncancel_sale_db: row is the sale's, item_row the row of its item, read by
\* the second SELECT (NoRow while the first checks have not passed).
uncancel_sale_db_msg(row, item_row) ==
    IF row = NoRow THEN <<"Sale not found.">>
    ELSE IF ~row.cancelled THEN <<"Sale is not cancelled.">>
    ELSE IF item_row = NoRow THEN <<"Associated item not found.">>
    ELSE IF item_row.quantity < row.quantity THEN <<"Not enough stock to uncancel this sale.">>
    ELSE <<"Sale un-cancelled and inventory updated.">>

\* An uncancel that clears the flag and takes nothing.
uncancel_sale_db_writes_flag_only(row, sale_id) == <<UpdateCancelled(sale_id, FALSE)>>

\* uncancel_sale_db: what it writes when the checks pass.
uncancel_sale_db_writes(row, sale_id) ==
    <<UpdateQuantity(row.item_id, 0 - row.quantity), UpdateCancelled(sale_id, FALSE)>>

\* An uncancel that takes the quantity before it has looked at the stock.
uncancel_sale_db_deduct_first(db, sale_id) ==
    LET row == IF sale_id \in SaleIds THEN db.sales[sale_id] ELSE NoRow
        item_row == IF row # NoRow /\ row.cancelled THEN db.inventory[row.item_id] ELSE NoRow
        msg == uncancel_sale_db_msg(row, item_row)
    IN  IF row = NoRow \/ ~row.cancelled THEN [db |-> db, msg |-> msg]
        ELSE IF msg[1] # "Sale un-cancelled and inventory updated."
        THEN [db |-> Execute(db, UpdateQuantity(row.item_id, 0 - row.quantity)), msg |-> msg]
        ELSE [db |-> ExecuteAll(db, uncancel_sale_db_writes(row, sale_id)), msg |-> msg]

\* pos_frontend.py uncancel_sale_db.
uncancel_sale_db(db, sale_id) ==
    LET row == IF sale_id \in SaleIds THEN db.sales[sale_id] ELSE NoRow
        item_row == IF row # NoRow /\ row.cancelled THEN db.inventory[row.item_id] ELSE NoRow
        msg == uncancel_sale_db_msg(row, item_row)
    IN  IF msg[1] # "Sale un-cancelled and inventory updated." THEN [db |-> db, msg |-> msg]
        ELSE [db |-> ExecuteAll(db, uncancel_sale_db_writes(row, sale_id)), msg |-> msg]

\* An edit that brings the totals of the item's sales to the new price.
edit_item_reprice(db, item_id, name, price, quantity, image_path) ==
    IF ~HasItem(db, item_id) THEN [db |-> db, msg |-> <<"Item not found.">>]
    ELSE IF strip(name) = <<>> THEN [db |-> db, msg |-> <<"Name cannot be empty.">>]
    ELSE [db |-> update_item_db_reprice(db, item_id, Some(strip(name)), Some(price),
                                        Some(quantity), image_path).db,
          msg |-> <<"Item updated successfully.">>]

\* pos_frontend.py edit_item (POST): the row is looked up first; name, price
\* and quantity always come with the form, an image only when one is uploaded.
edit_item(db, item_id, name, price, quantity, image_path) ==
    IF ~HasItem(db, item_id) THEN [db |-> db, msg |-> <<"Item not found.">>]
    ELSE IF strip(name) = <<>> THEN [db |-> db, msg |-> <<"Name cannot be empty.">>]
    ELSE [db |-> update_item_db(db, item_id, Some(strip(name)), Some(price),
                                Some(quantity), image_path).db,
          msg |-> <<"Item updated successfully.">>]

\* toggle_favorite: what it writes for the row it fetched.
toggle_favorite_writes(row, item_id) ==
    <<UpdateFavorite(item_id, IF row.favorite # 0 THEN 0 ELSE 1)>>

\* pos_frontend.py toggle_favorite.
toggle_favorite(db, item_id) ==
    IF ~HasItem(db, item_id) THEN [db |-> db, msg |-> <<"Item not found.">>]
    ELSE LET row == db.inventory[item_id]
             new_fav == IF row.favorite # 0 THEN 0 ELSE 1
         IN  [db |-> ExecuteAll(db, toggle_favorite_writes(row, item_id)),
              msg |-> <<IF new_fav # 0 THEN "added to favorites." ELSE "removed from favorites.",
                        row.name>>]

\* pos_system.py update_item: what it writes for the row it fetched.  A field
\* that is None (a name that is None or empty) takes the value of that row.
update_item_writes(row, item_id, name, price, quantity) ==
    <<UpdateRow(item_id,
                IF name # None /\ name[1] # <<>> THEN strip(name[1]) ELSE row.name,
                IF price # None THEN price[1] ELSE row.price,
                IF quantity # None THEN quantity[1] ELSE row.quantity)>>

\* pos_system.py update_item: SELECT the row; UPDATE name, price and quantity;
\* commit.
update_item(db, item_id, name, price, quantity) ==
    IF ~HasItem(db, item_id) THEN [db |-> db, msg |-> <<"No item found with ID", item_id>>]
    ELSE [db |-> ExecuteAll(db, update_item_writes(db.inventory[item_id], item_id,
                                                   name, price, quantity)),
          msg |-> <<"updated", item_id>>]

\* pos_system.py main_menu, choice 3: a field left blank is passed as None.
main_menu_update(db, item_id, new_name, price, quantity) ==
    update_item(db, item_id, IF strip(new_name) # <<>> THEN Some(new_name) ELSE None,
                price, quantity)

\* ------------------------------------------------------------------ the cart
Digits == <<"0", "1", "2", "3", "4", "5", "6", "7", "8", "9">>
IsDigit(ch) == \E k \in DOMAIN Digits : Digits[k] = ch
DigitValue(ch) == (CHOOSE k \in DOMAIN Digits : Digits[k] = ch) - 1

RECURSIVE Decimal(_)
Decimal(digits) ==
    IF digits = <<>> THEN 0
    ELSE 10 * Decimal(SubSeq(digits, 1, Len(digits) - 1)) + DigitValue(digits[Len(digits)])

\* Python's int(text) of a text of digits, signs and blanks: blanks around the
\* number and leading zeros are dropped, one sign may lead; None stands for
\* the ValueError any other text raises.
int(text) ==
    LET s == strip(text)
        signed == s # <<>> /\ s[1] \in {"+", "-"}
        body == IF signed THEN Tail(s) ELSE s
    IN  IF body = <<>> \/ \E k \in DOMAIN body : ~IsDigit(body[k]) THEN None
        ELSE Some(IF signed /\ s[1] = "-" THEN 0 - Decimal(body) ELSE Decimal(body))

\* The texts a form names an item by, and those it gives as a quantity.
Keys == {<<"1">>, <<"0", "1">>, <<"2">>, <<"x">>}
Amounts == {<<"-", "1">>, <<"0">>, <<"1">>, <<"2">>, <<"x">>}
\* The most lines a cart has.
MaxLines == 2

\* session["cart"], a dict from the form's item_id text to a quantity, as the
\* sequence of its lines <<text, quantity>> in the order cart.items() yields
\* them.  Its keys are texts add_to_cart has read as the id of an item; two
\* of them may read as the same id.
Carts ==
    LET keys == {key \in Keys : int(key) # None /\ int(key)[1] \in ItemIds}
        lines == keys \X Quantities
    IN  UNION {{cart \in [1..n -> lines] :
                    \A k \in 1..n, l \in 1..n : k # l => cart[k][1] # cart[l][1]} :
               n \in 0..MaxLines}

\* checkout's loop: record_sale_db for each line of the cart, on one
\* connection, its message appended to `messages`; nows[k] is what
\* datetime.now() reads while line k is sold.  `raised` when int() refused a
\* key: the loop ends there.
RECURSIVE checkout_lines(_, _, _)
checkout_lines(db, cart, nows) ==
    IF cart = <<>> THEN [db |-> db, messages |-> <<>>, raised |-> FALSE]
    ELSE IF int(Head(cart)[1]) = None
    THEN [db |-> db, messages |-> <<>>, raised |-> TRUE]
    ELSE LET r == record_sale_db(db, int(Head(cart)[1])[1], Head(cart)[2], Head(nows))
             rest == checkout_lines(r.db, Tail(cart), Tail(nows))
         IN  [db |-> rest.db, messages |-> <<r.msg>> \o rest.messages,
              raised |-> rest.raised]

\* pos_frontend.py checkout: the tables, the flashed message and the session
\* cart after the request.
checkout(db, cart, nows) ==
    IF cart = <<>>
    THEN [db |-> db, msg |-> <<"Cart is empty; nothing to checkout.">>, cart |-> cart]
    ELSE LET r == checkout_lines(db, cart, nows)
         IN  IF r.raised THEN [db |-> r.db, msg |-> <<"ValueError">>, cart |-> cart]
             ELSE [db |-> r.db, msg |-> <<"Checkout complete.">> \o r.messages,
                   cart |-> <<>>]

\* pos_frontend.py add_to_cart: the session cart and the flashed message after
\* the request; `item_id` and `qty_str` are the form's texts, item_id <<>>
\* when the form names no item.  The item is looked up by int(item_id) and the
\* cart is keyed by the text itself.  The quantity is any integer: its sign is
\* not looked at, and the line of a text already in the cart has the quantity
\* added to it.
add_to_cart(db, cart, item_id, qty_str) ==
    IF int(qty_str) = None THEN [cart |-> cart, msg |-> <<"Invalid quantity.">>]
    ELSE IF item_id = <<>> THEN [cart |-> cart, msg |-> <<"No item specified.">>]
    ELSE IF int(item_id) = None THEN [cart |-> cart, msg |-> <<"ValueError">>]
    ELSE IF ~HasItem(db, int(item_id)[1])
    THEN [cart |-> cart, msg |-> <<"Item does not exist.">>]
    ELSE LET quantity == int(qty_str)[1]
             at == {k \in 1..Len(cart) : cart[k][1] = item_id}
             put == IF at = {}
                    THEN Append(cart, <<item_id, quantity>>)
                    ELSE [k \in 1..Len(cart) |->
                             IF k \in at THEN <<cart[k][1], cart[k][2] + quantity>>
                             ELSE cart[k]]
         IN  [cart |-> put,
              msg |-> <<"Added to cart.", quantity, db.inventory[int(item_id)[1]].name>>]

\* ---------------------------------------------------------------- listings
\* FROM sales JOIN inventory ON sales.item_id = inventory.id: the ids of the
\* sales whose item has a row.
Joined(db) == {s \in SaleIds : HasSale(db, s) /\ HasItem(db, db.sales[s].item_id)}

\* The orders in which a SELECT may return the rows `ids`: <<a, b>> is in
\* `before` when ORDER BY lets a come ahead of b; rows it ranks equal come
\* either way.
Orders(ids, before) ==
    LET n == Cardinality(ids)
    IN  {f \in [1..n -> ids] :
            /\ \A i \in 1..n, j \in 1..n : i # j => f[i] # f[j]
            /\ \A i \in 1..n, j \in 1..n : i < j => <<f[i], f[j]>> \in before}

\* pos_frontend.py list_sales: ... ORDER BY sales.timestamp DESC; every result
\* the query may give.
list_sales(db) ==
    LET Before(a, b) == db.sales[a].timestamp >= db.sales[b].timestamp
        Row(s) == [id |-> s, item_name |-> db.inventory[db.sales[s].item_id].name,
                   quantity |-> db.sales[s].quantity,
                   total_price |-> db.sales[s].total_price,
                   timestamp |-> db.sales[s].timestamp,
                   cancelled |-> db.sales[s].cancelled]
        before == {p \in Joined(db) \X Joined(db) : Before(p[1], p[2])}
    IN  {[i \in DOMAIN f |-> Row(f[i])] : f \in Orders(Joined(db), before)}

\* pos_system.py view_sales: the same JOIN, ORDER BY sales.timestamp, and no
\* cancelled column.
view_sales(db) ==
    LET Before(a, b) == db.sales[a].timestamp <= db.sales[b].timestamp
        Row(s) == [id |-> s, name |-> db.inventory[db.sales[s].item_id].name,
                   quantity |-> db.sales[s].quantity,
                   total_price |-> db.sales[s].total_price,
                   timestamp |-> db.sales[s].timestamp]
        before == {p \in Joined(db) \X Joined(db) : Before(p[1], p[2])}
    IN  {[i \in DOMAIN f |-> Row(f[i])] : f \in Orders(Joined(db), before)}

\* The search terms of GET /?q=..., as index has stripped them.
Terms == {<<>>, <<"b">>, <<"A">>, <<"a", "B">>, <<"_">>, <<"%">>}

\* SQLite folds the upper-case ASCII letters for LIKE and for COLLATE NOCASE;
\* of the characters of Names and Terms those are A and B.
Lower(ch) == CASE ch = "A" -> "a" [] ch = "B" -> "b" [] OTHER -> ch

\* The byte of a character of Names and Terms.
Ord(ch) ==
    CASE ch = " " -> 32 [] ch = "%" -> 37 [] ch = "A" -> 65 [] ch = "B" -> 66
      [] ch = "_" -> 95 [] ch = "a" -> 97 [] ch = "b" -> 98

\* text LIKE pattern: % stands for any run of characters, _ for any one
\* character, and a letter for itself in either case.
RECURSIVE Like(_, _)
Like(pattern, text) ==
    IF pattern = <<>> THEN text = <<>>
    ELSE IF Head(pattern) = "%"
    THEN Like(Tail(pattern), text) \/ (text # <<>> /\ Like(pattern, Tail(text)))
    ELSE IF text = <<>> THEN FALSE
    ELSE IF Head(pattern) = "_" THEN Like(Tail(pattern), Tail(text))
    ELSE Lower(Head(pattern)) = Lower(Head(text)) /\ Like(Tail(pattern), Tail(text))

\* a <= b under COLLATE NOCASE: byte by byte on the folded characters, a
\* proper prefix first.
RECURSIVE NocaseLeq(_, _)
NocaseLeq(a, b) ==
    IF a = <<>> THEN TRUE
    ELSE IF b = <<>> THEN FALSE
    ELSE IF Lower(Head(a)) = Lower(Head(b)) THEN NocaseLeq(Tail(a), Tail(b))
    ELSE Ord(Lower(Head(a))) < Ord(Lower(Head(b)))

\* pos_frontend.py list_inventory on SQLite: WHERE name LIKE '%term%' COLLATE
\* NOCASE when the term is not empty, ORDER BY favorite DESC, name COLLATE
\* NOCASE; every result the query may give.
list_inventory(db, search_term) ==
    LET ids == {i \in ItemIds :
                   /\ HasItem(db, i)
                   /\ search_term # <<>> =>
                          Like(<<"%">> \o search_term \o <<"%">>, db.inventory[i].name)}
        Before(a, b) ==
            \/ db.inventory[a].favorite > db.inventory[b].favorite
            \/ /\ db.inventory[a].favorite = db.inventory[b].favorite
               /\ NocaseLeq(db.inventory[a].name, db.inventory[b].name)
        Row(i) == [id |-> i, name |-> db.inventory[i].name, price |-> db.inventory[i].price,
                   quantity |-> db.inventory[i].quantity,
                   image_path |-> db.inventory[i].image_path,
                   favorite |-> db.inventory[i].favorite]
    IN  {[k \in DOMAIN f |-> Row(f[k])] : f \in Orders(ids, {p \in ids \X ids : Before(p[1], p[2])})}

\* ------------------------------------------- requests on their own connections
\* Each request runs on a connection of its own (get_connection), statement by
\* statement.  sqlite3 opens a transaction before the first INSERT, UPDATE or
\* DELETE, not before a SELECT: a SELECT reads what is committed, the first
\* write takes the database's write lock, and the lock is held to the commit.
\* What a request fetched may be out of date by the time it writes.
\* A request: its form, the statements it has executed (n) and, for a sale,
\* the timestamp it took from datetime.now(), None until it has.
NoReq == [op |-> "none", id |-> 0, qty |-> 0, n |-> 0, form |-> <<>>, timestamp |-> None]
NoTx == [absent |-> TRUE]
Request(op, id, qty, form) ==
    [op |-> op, id |-> id, qty |-> qty, n |-> 0, form |-> form, timestamp |-> None]

\* The connection of the requests that come one after the other.
Caller == "c1"

\* A connection in autocommit: every statement is in the file at once.
DurableAutocommit(committed, pending) == pending

\* What the database file holds after a statement of an open transaction:
\* the statement is in the transaction, the file is as committed.
Durable(committed, pending) == committed

\* The timestamp of connection c's sale: the one it took from datetime.now()
\* after its UPDATE.  Its INSERT is not executed before it has taken one.
Timestamp(c) == IF req[c].timestamp = None THEN clock ELSE req[c].timestamp[1]

\* The statements of connection c's call, from the form of its request and
\* the row its SELECT fetched.
Writes(c) ==
    CASE req[c].op = "sell" ->
            record_sale_db_writes(fetched[c], req[c].id, req[c].qty, Timestamp(c))
      [] req[c].op = "sell_cli" ->
            record_sale_writes(fetched[c], req[c].id, req[c].qty, Timestamp(c))
      [] req[c].op = "cancel" -> cancel_sale_db_writes(fetched[c], req[c].id)
      [] req[c].op = "uncancel" -> uncancel_sale_db_writes(fetched[c], req[c].id)
      [] req[c].op = "delete" -> delete_sale_db_writes(fetched[c], req[c].id)
      [] req[c].op = "add" ->
            <<InsertInventory(req[c].form[1], req[c].form[2], req[c].form[3], req[c].form[4])>>
      [] req[c].op = "edit" ->
            <<UpdateInventory(req[c].id, Some(strip(req[c].form[1])), Some(req[c].form[2]),
                              Some(req[c].form[3]), req[c].form[4])>>
      [] req[c].op = "update" ->
            update_item_writes(fetched[c], req[c].id, req[c].form[1], req[c].form[2],
                               req[c].form[3])
      [] req[c].op = "toggle" -> toggle_favorite_writes(fetched[c], req[c].id)
      [] req[c].op = "delete_item" -> <<DeleteInventory(req[c].id)>>

\* The requests past their checks that will each need a new id within the
\* bounds MaxSales and MaxItems.
Selling == {c \in Conns : req[c].op \in {"sell", "sell_cli"} /\ pc[c] \in {"write", "now"}}
Adding == {c \in Conns : req[c].op = "add" /\ pc[c] = "write"}

\* A request arrives on connection c, runs its first SELECT and the checks on
\* the row it fetched (for add_item, the checks on its form), and returns its
\* message (goes = "idle") or goes on to its next statement.
Arrive(c, r, row, goes) ==
    /\ pc[c] = "idle"
    /\ pc' = [pc EXCEPT ![c] = goes]
    /\ req' = [req EXCEPT ![c] = IF goes = "idle" THEN NoReq ELSE r]
    /\ fetched' = [fetched EXCEPT ![c] = IF goes = "idle" THEN NoRow ELSE row]
    /\ UNCHANGED <<dbvars, clock, use_pg, histvars, tx, lock>>

\* The requests on items take their names from `names`, their prices from
\* `prices`, their quantities from `quantities` and their uploads from
\* `images`: the ledger is followed with one name, one price and no upload,
\* the catalogue and the shop with all of them.
\* POST /add-item
AddItem(c, names, prices, quantities, images) ==
    \E name \in names, price \in prices, quantity \in quantities, image_path \in images :
        /\ sqlite_sequence.inventory + Cardinality(Adding) < MaxItems
        /\ Arrive(c, Request("add", 0, 0, <<name, price, quantity, image_path>>), NoRow,
                  IF add_item(DB, name, price, quantity, image_path).msg[1] =
                         "Item added successfully."
                  THEN "write" ELSE "idle")

\* POST /edit-item/<item_id>
EditItem(c, names, prices, quantities, images) ==
    \E item_id \in ItemIds, name \in names, price \in prices, quantity \in quantities,
       image_path \in images :
        Arrive(c, Request("edit", item_id, 0, <<name, price, quantity, image_path>>),
               inventory[item_id],
               IF edit_item(DB, item_id, name, price, quantity, image_path).msg[1] =
                      "Item updated successfully."
               THEN "write" ELSE "idle")

\* The text menu, choice 3: a field left blank is passed as None.
UpdateItem(c, names, prices, quantities) ==
    \E item_id \in ItemIds, new_name \in names \cup {<<>>},
       price \in Optional(prices), quantity \in Optional(quantities) :
        Arrive(c, Request("update", item_id, 0,
                          <<IF strip(new_name) # <<>> THEN Some(new_name) ELSE None,
                            price, quantity>>),
               inventory[item_id],
               IF main_menu_update(DB, item_id, new_name, price, quantity).msg[1] = "updated"
               THEN "write" ELSE "idle")

\* POST /toggle-favorite/<item_id>
ToggleFavorite(c) ==
    \E item_id \in ItemIds :
        Arrive(c, Request("toggle", item_id, 0, <<>>), inventory[item_id],
               IF toggle_favorite(DB, item_id).msg[1] # "Item not found."
               THEN "write" ELSE "idle")

\* The text menu, choice 4
DeleteItem(c) ==
    \E item_id \in ItemIds :
        Arrive(c, Request("delete_item", item_id, 0, <<>>), inventory[item_id],
               IF delete_item(DB, item_id, use_pg).msg[1] # "No item found with ID"
               THEN "write" ELSE "idle")

\* POST /sell
Sell(c) ==
    \E item_id \in ItemIds, quantity \in Quantities :
        /\ sqlite_sequence.sales + Cardinality(Selling) < MaxSales
        /\ Arrive(c, Request("sell", item_id, quantity, <<>>), inventory[item_id],
                  IF record_sale_db_msg(inventory[item_id], item_id, quantity, clock)[1] = "Sold"
                  THEN "write" ELSE "idle")

\* The text menu, choice 5
SellCli(c) ==
    \E item_id \in ItemIds, quantity \in Quantities :
        /\ sqlite_sequence.sales + Cardinality(Selling) < MaxSales
        /\ Arrive(c, Request("sell_cli", item_id, quantity, <<>>), inventory[item_id],
                  IF record_sale(DB, item_id, quantity, clock).msg[1] = "Sold"
                  THEN "write" ELSE "idle")

\* POST /cancel-sale/<sale_id>
Cancel(c) ==
    \E sale_id \in SaleIds :
        Arrive(c, Request("cancel", sale_id, 0, <<>>), sales[sale_id],
               IF cancel_sale_db_msg(sales[sale_id])[1] = "Sale cancelled and inventory restored."
               THEN "write" ELSE "idle")

\* POST /uncancel-sale/<sale_id>, with the administrative code: the SELECT of
\* the sale; the SELECT of its item follows.
Uncancel(c) ==
    \E sale_id \in SaleIds :
        Arrive(c, Request("uncancel", sale_id, 0, <<>>), sales[sale_id],
               IF uncancel_sale_db_msg(sales[sale_id], NoRow)[1] = "Associated item not found."
               THEN "select_item" ELSE "idle")

\* POST /delete-sale/<sale_id>, with the administrative code
DeleteSale(c) ==
    \E sale_id \in SaleIds :
        Arrive(c, Request("delete", sale_id, 0, <<>>), sales[sale_id],
               IF delete_sale_db_msg(sales[sale_id])[1] # "Sale not found."
               THEN "write" ELSE "idle")

\* uncancel_sale_db's second SELECT, of the item of the sale it fetched, and
\* the checks on that row.
Select(c) ==
    /\ pc[c] = "select_item"
    /\ LET item_row == inventory[fetched[c].item_id]
           goes == uncancel_sale_db_msg(fetched[c], item_row)[1] =
                       "Sale un-cancelled and inventory updated."
       IN  /\ pc' = [pc EXCEPT ![c] = IF goes THEN "write" ELSE "idle"]
           /\ req' = [req EXCEPT ![c] = IF goes THEN @ ELSE NoReq]
           /\ fetched' = [fetched EXCEPT ![c] = IF goes THEN @ ELSE NoRow]
    /\ UNCHANGED <<dbvars, clock, use_pg, histvars, tx, lock>>

\* An INSERT, UPDATE or DELETE of the call that is not its last, in its
\* transaction; the first one waits for the write lock.  A sale goes on to
\* datetime.now() after its UPDATE.
Write(c) ==
    /\ pc[c] = "write"
    /\ lock \in {"free", c}
    /\ req[c].n + 1 < Len(Writes(c))
    /\ LET k == req[c].n + 1
           cur == IF tx[c] = NoTx THEN DB ELSE tx[c]
           new == Execute(cur, Writes(c)[k])
           file == Durable(DB, new)
       IN  /\ tx' = [tx EXCEPT ![c] = new]
           /\ req' = [req EXCEPT ![c].n = k]
           /\ inventory' = file.inventory
           /\ sales' = file.sales
           /\ sqlite_sequence' = file.sqlite_sequence
    /\ lock' = c
    /\ pc' = [pc EXCEPT ![c] = IF req[c].op \in {"sell", "sell_cli"} THEN "now" ELSE @]
    /\ UNCHANGED <<clock, use_pg, histvars, fetched>>

\* timestamp = datetime.now().isoformat(timespec="seconds"), between the
\* UPDATE and the INSERT of a sale.
Now(c) ==
    /\ pc[c] = "now"
    /\ req' = [req EXCEPT ![c].timestamp = Some(clock)]
    /\ pc' = [pc EXCEPT ![c] = "write"]
    /\ UNCHANGED <<dbvars, clock, use_pg, histvars, fetched, tx, lock>>

\* The last INSERT, UPDATE or DELETE of the call and conn.commit(): the
\* transaction is in the file.  The history: an item's quantity at its
\* creation, forgotten once an UPDATE of an edit reached its row; the sales a
\* DELETE removed.
Commit(c) ==
    /\ pc[c] = "write"
    /\ lock \in {"free", c}
    /\ req[c].n + 1 = Len(Writes(c))
    /\ LET cur == IF tx[c] = NoTx THEN DB ELSE tx[c]
           new == Execute(cur, Writes(c)[req[c].n + 1])
       IN  /\ ~Raises(cur, Writes(c)[req[c].n + 1])
           /\ inventory' = new.inventory
           /\ sales' = new.sales
           /\ sqlite_sequence' = new.sqlite_sequence
           /\ baseline' =
                  IF req[c].op = "add"
                  THEN [baseline EXCEPT ![new.sqlite_sequence.inventory] = Some(req[c].form[3])]
                  ELSE IF req[c].op \in {"edit", "update"} /\ HasItem(DB, req[c].id)
                  THEN [baseline EXCEPT ![req[c].id] = None]
                  ELSE baseline
    /\ removed' = IF req[c].op = "delete" /\ HasSale(DB, req[c].id)
                  THEN removed \cup {req[c].id} ELSE removed
    /\ tx' = [tx EXCEPT ![c] = NoTx]
    /\ lock' = "free"
    /\ pc' = [pc EXCEPT ![c] = "idle"]
    /\ req' = [req EXCEPT ![c] = NoReq]
    /\ fetched' = [fetched EXCEPT ![c] = NoRow]
    /\ UNCHANGED <<clock, use_pg>>

\* The call is at its last statement, and that is an INSERT.
Inserting(c) ==
    /\ pc[c] = "write"
    /\ req[c].n + 1 = Len(Writes(c))
    /\ Writes(c)[req[c].n + 1][1] \in {"INSERT INTO sales", "INSERT INTO inventory"}

\* The call raises, or the process stops, before the commit: the transaction
\* is rolled back and the tables stay as committed.  On PostgreSQL a call
\* that stops after its INSERT has taken the next id of the SERIAL sequence,
\* which a rollback does not give back; in SQLite sqlite_sequence is rolled
\* back with the tables.
Fail(c) ==
    /\ pc[c] \in {"select_item", "write", "now"}
    /\ \E inserted \in (IF use_pg /\ Inserting(c) THEN BOOLEAN ELSE {FALSE}) :
           sqlite_sequence' =
               IF inserted
               THEN Execute(IF tx[c] = NoTx THEN DB ELSE tx[c],
                            Writes(c)[req[c].n + 1]).sqlite_sequence
               ELSE sqlite_sequence
    /\ tx' = [tx EXCEPT ![c] = NoTx]
    /\ lock' = IF lock = c THEN "free" ELSE lock
    /\ pc' = [pc EXCEPT ![c] = "idle"]
    /\ req' = [req EXCEPT ![c] = NoReq]
    /\ fetched' = [fetched EXCEPT ![c] = NoRow]
    /\ UNCHANGED <<inventory, sales, clock, use_pg, histvars>>

\* A second passes: datetime.now() reads the next one.
Tick ==
    /\ clock < MaxClock
    /\ clock' = clock + 1
    /\ UNCHANGED <<dbvars, use_pg, histvars, connvars>>

\* ------------------------------------------------- one caller, call by call
\* The tables as create_tables leaves them, in the SQLite file: the
\* environment names no PostgreSQL database.
Init ==
    /\ inventory = create_tables.inventory
    /\ sales = create_tables.sales
    /\ sqlite_sequence = create_tables.sqlite_sequence
    /\ clock = 0
    /\ use_pg = FALSE
    /\ baseline = [i \in ItemIds |-> None]
    /\ removed = {}
    /\ pc = [c \in Conns |-> "idle"]
    /\ req = [c \in Conns |-> NoReq]
    /\ fetched = [c \in Conns |-> NoRow]
    /\ tx = [c \in Conns |-> NoTx]
    /\ lock = "free"

\* The web application and the text menu used by one caller: each request runs
\* to its end before the next arrives, while time passes.
Next ==
    \/ Tick
    \/ \E c \in {Caller} :
        \/ AddItem(c, Names, Prices, Quantities, Optional(Images))
        \/ EditItem(c, Names, Prices, Quantities, Optional(Images))
        \/ UpdateItem(c, Names, Prices, Quantities)
        \/ ToggleFavorite(c)
        \/ DeleteItem(c)
        \/ Sell(c)
        \/ SellCli(c)
        \/ Cancel(c)
        \/ Uncancel(c)
        \/ DeleteSale(c)
        \/ Select(c)
        \/ Write(c)
        \/ Now(c)
        \/ Commit(c)
        \/ Fail(c)

Spec == Init /\ [][Next]_vars

\* The ledger followed call by call: items of one name and one price are
\* created, edited and deleted through the web application and the text menu,
\* and sold, cancelled, restored and deleted from the sales, while time passes.
LedgerNext ==
    \/ Tick
    \/ \E c \in {Caller} :
        \/ AddItem(c, LedgerNames, LedgerPrices, Quantities, {None})
        \/ EditItem(c, LedgerNames, LedgerPrices, Quantities, {None})
        \/ DeleteItem(c)
        \/ Sell(c)
        \/ SellCli(c)
        \/ Cancel(c)
        \/ Uncancel(c)
        \/ DeleteSale(c)
        \/ Select(c)
        \/ Write(c)
        \/ Now(c)
        \/ Commit(c)

LedgerSpec == Init /\ [][LedgerNext]_vars

\* The shop when nobody enters a negative quantity for an item: items are
\* created and edited with quantities from Stocks, and everything else is as
\* in Next, sells of zero and of negative quantities included.
Stocks == 0..MaxQty
\* A quantity below zero and one above.
Entered == {0 - 1, 1}

StockNext ==
    \/ Tick
    \/ \E c \in {Caller} :
        \/ AddItem(c, LedgerNames, LedgerPrices, Stocks, {None})
        \/ EditItem(c, LedgerNames, LedgerPrices, Stocks, {None})
        \/ UpdateItem(c, {}, LedgerPrices, Stocks)
        \/ DeleteItem(c)
        \/ Sell(c)
        \/ SellCli(c)
        \/ Cancel(c)
        \/ Uncancel(c)
        \/ DeleteSale(c)
        \/ Select(c)
        \/ Write(c)
        \/ Now(c)
        \/ Commit(c)

StockSpec == Init /\ [][StockNext]_vars

\* The till: items are created and deleted and sold one at a time, which gives
\* the catalogues and the ledgers a cart is checked out against.
TillNext ==
    \/ Tick
    \/ \E c \in {Caller} :
        \/ AddItem(c, LedgerNames, LedgerPrices, Quantities, {None})
        \/ DeleteItem(c)
        \/ Sell(c)
        \/ Write(c)
        \/ Now(c)
        \/ Commit(c)

TillSpec == Init /\ [][TillNext]_vars

\* The catalogue by itself, with every name and upload and with a quantity
\* below zero and one above: no sale is recorded, and each of its calls has
\* one statement to write.
CatalogueNext ==
    \/ Tick
    \/ \E c \in {Caller} :
        \/ AddItem(c, Names, Prices, Entered, Optional(Images))
        \/ EditItem(c, Names, Prices, Entered, Optional(Images))
        \/ UpdateItem(c, Names, Prices, Entered)
        \/ ToggleFavorite(c)
        \/ DeleteItem(c)
        \/ Commit(c)

CatalogueSpec == Init /\ [][CatalogueNext]_vars

\* The catalogue beside its sales: items of one name and one price, each with
\* an upload, are created, marked, sold, edited through the web form to
\* another name and another price, and deleted, and their sales are cancelled.
EditNext ==
    \/ Tick
    \/ \E c \in {Caller} :
        \/ AddItem(c, LedgerNames, LedgerPrices, {MaxQty}, Optional(Images) \ {None})
        \/ EditItem(c, Names \ LedgerNames, Prices \ LedgerPrices, {1}, {None})
        \/ ToggleFavorite(c)
        \/ DeleteItem(c)
        \/ Sell(c)
        \/ Cancel(c)
        \/ Write(c)
        \/ Now(c)
        \/ Commit(c)

EditSpec == Init /\ [][EditNext]_vars

\* The text menu and the till on either backend: the environment names a
\* PostgreSQL database or it does not, and stays so.
BackendInit ==
    /\ inventory = create_tables.inventory
    /\ sales = create_tables.sales
    /\ sqlite_sequence = create_tables.sqlite_sequence
    /\ clock = 0
    /\ use_pg \in BOOLEAN
    /\ baseline = [i \in ItemIds |-> None]
    /\ removed = {}
    /\ pc = [c \in Conns |-> "idle"]
    /\ req = [c \in Conns |-> NoReq]
    /\ fetched = [c \in Conns |-> NoRow]
    /\ tx = [c \in Conns |-> NoTx]
    /\ lock = "free"

\* Items are created, sold from the web application and from the text menu,
\* and deleted; a call that raises ends without a commit.
BackendNext ==
    \/ Tick
    \/ \E c \in {Caller} :
        \/ AddItem(c, LedgerNames, LedgerPrices, Quantities, {None})
        \/ DeleteItem(c)
        \/ Sell(c)
        \/ SellCli(c)
        \/ Write(c)
        \/ Now(c)
        \/ Commit(c)
        \/ Fail(c)

BackendSpec == BackendInit /\ [][BackendNext]_vars

\* ------------------------------------------------ requests side by side
\* Requests racing on one sale move an item's quantity without limit: no
\* request is taken while a quantity is beyond MaxStock.
Bounded ==
    \A i \in ItemIds :
        HasItem(DB, i) => (0 - MaxStock <= inventory[i].quantity
                           /\ inventory[i].quantity <= MaxStock)

\* The catalogue holds one item, as add_item_with_image created it; the
\* requests that follow all meet on it.
ConcInit ==
    \E name \in LedgerNames, price \in Prices, quantity \in Quantities :
        LET db == add_item_with_image(create_tables, name, price, quantity, None).db
            id == db.sqlite_sequence.inventory
        IN  /\ inventory = db.inventory
            /\ sales = db.sales
            /\ sqlite_sequence = db.sqlite_sequence
            /\ clock = 0
            /\ use_pg = FALSE
            /\ baseline = [i \in ItemIds |-> IF i = id THEN Some(quantity) ELSE None]
            /\ removed = {}
            /\ pc = [c \in Conns |-> "idle"]
            /\ req = [c \in Conns |-> NoReq]
            /\ fetched = [c \in Conns |-> NoRow]
            /\ tx = [c \in Conns |-> NoTx]
            /\ lock = "free"

\* Requests of every kind of the Sale Ledger side by side.
ConcNext ==
    \/ Tick
    \/ \E c \in Conns :
        \/ Bounded /\ Sell(c)
        \/ Bounded /\ Cancel(c)
        \/ Bounded /\ Uncancel(c)
        \/ Bounded /\ DeleteSale(c)
        \/ Select(c)
        \/ Write(c)
        \/ Now(c)
        \/ Commit(c)
        \/ Fail(c)

ConcSpec == ConcInit /\ [][ConcNext]_vars

\* The shop around one item: the till sells, cancels, restores and deletes
\* sales on one connection while the office edits, marks and deletes the item
\* on another, each at its own pace; a request that waits for the other's
\* write lock longer than the connection's timeout ends with
\* OperationalError (database is locked) and writes nothing.
Till == "c1"
Office == "c2"

ShopNext ==
    \/ Tick
    \/ Bounded /\ Sell(Till)
    \/ Bounded /\ Cancel(Till)
    \/ Bounded /\ Uncancel(Till)
    \/ Bounded /\ DeleteSale(Till)
    \/ Bounded /\ EditItem(Office, LedgerNames, Prices, Entered, {None})
    \/ Bounded /\ ToggleFavorite(Office)
    \/ Bounded /\ DeleteItem(Office)
    \/ \E c \in Conns : Select(c) \/ Write(c) \/ Now(c) \/ Commit(c) \/ Fail(c)

ShopSpec == ConcInit /\ [][ShopNext]_vars

\* Sell requests side by side.
SellNext ==
    \/ Tick
    \/ \E c \in Conns :
        \/ Bounded /\ Sell(c)
        \/ Write(c)
        \/ Now(c)
        \/ Commit(c)
        \/ Fail(c)

SellSpec == ConcInit /\ [][SellNext]_vars

\* Sells, cancels and deletions of sales side by side.
RestoreNext ==
    \/ Tick
    \/ \E c \in Conns :
        \/ Bounded /\ Sell(c)
        \/ Bounded /\ Cancel(c)
        \/ Bounded /\ DeleteSale(c)
        \/ Write(c)
        \/ Now(c)
        \/ Commit(c)
        \/ Fail(c)

RestoreSpec == ConcInit /\ [][RestoreNext]_vars

\* ------------------------------------------------------------------ claims
\* No call is under way: a call made now runs from its first statement to its
\* commit on the tables as they are.
Quiet == \A c \in Conns : pc[c] = "idle"

\* Helpers of the statements below.
Quantity(db, item_id) == db.inventory[item_id].quantity
Active(db, sale_id) == HasSale(db, sale_id) /\ ~db.sales[sale_id].cancelled
Cancelled(db, sale_id) == HasSale(db, sale_id) /\ db.sales[sale_id].cancelled
\* The sales table has room for one more row within the bound MaxSales.
Room(db) == NextRowid(db, "sales") \in SaleIds
OtherItemsSame(db, after, item_id) ==
    \A i \in ItemIds \ {item_id} : after.inventory[i] = db.inventory[i]
OtherSalesSame(db, after, sale_id) ==
    \A s \in SaleIds \ {sale_id} : after.sales[s] = db.sales[s]
\* The two entry points of sell: the web route's and the text menu's.
Sells(db, item_id, quantity, now) ==
    {record_sale_db(db, item_id, quantity, now), record_sale(db, item_id, quantity, now)}

RECURSIVE ActiveSum(_, _, _)
\* The quantities of the non-cancelled sales 1..n of an item, added up.
ActiveSum(db, item_id, n) ==
    IF n = 0 THEN 0
    ELSE ActiveSum(db, item_id, n - 1)
         + (IF Active(db, n) /\ db.sales[n].item_id = item_id THEN db.sales[n].quantity ELSE 0)

\* C1: in every reachable state, for every existing item with quantity n and
\* every q with 0 < q <= n, sell(item, q) goes through, lowers that item's
\* quantity to n - q and leaves its price alone, inserts exactly one sale row,
\* Active, with item_id = item, quantity = q and total_price = price * q, and
\* changes no other item and no other sale.
C1_SellEffect ==
    Quiet =>
        \A item_id \in ItemIds, q \in Quantities, now \in Times :
            (HasItem(DB, item_id) /\ 0 < q /\ q <= Quantity(DB, item_id) /\ Room(DB)) =>
                \A r \in Sells(DB, item_id, q, now) :
                    LET new == {s \in SaleIds : ~HasSale(DB, s) /\ HasSale(r.db, s)}
                    IN  /\ r.msg[1] = "Sold"
                        /\ r.db.inventory[item_id] =
                               [inventory[item_id] EXCEPT !.quantity = @ - q]
                        /\ Cardinality(new) = 1
                        /\ \A s \in new :
                               /\ r.db.sales[s] =
                                      [item_id |-> item_id, quantity |-> q, timestamp |-> now,
                                       total_price |-> inventory[item_id].price * q,
                                       cancelled |-> FALSE]
                               /\ OtherSalesSame(DB, r.db, s)
                        /\ OtherItemsSame(DB, r.db, item_id)

\* A sell has gone through (its Active row and the lowered quantity are in the
\* tables), and a further sell of two units is possible.
C1_Witness ==
    \E s \in SaleIds :
        /\ Active(DB, s) /\ Room(DB)
        /\ HasItem(DB, sales[s].item_id)
        /\ baseline[sales[s].item_id] # None
        /\ Quantity(DB, sales[s].item_id) < baseline[sales[s].item_id][1]
        /\ \E i \in ItemIds : HasItem(DB, i) /\ Quantity(DB, i) >= 2

\* C2 as stated: sell(item, q) with q above the item's current quantity is
\* refused as insufficient stock, reports that quantity, and changes nothing.
C2_InsufficientStock ==
    Quiet =>
        \A item_id \in ItemIds, q \in Quantities, now \in Times :
            (HasItem(DB, item_id) /\ q > Quantity(DB, item_id)) =>
                /\ record_sale_db(DB, item_id, q, now) =
                       [db |-> DB, msg |-> <<"Insufficient stock. Available:", Quantity(DB, item_id)>>]
                /\ record_sale(DB, item_id, q, now) =
                       [db |-> DB, msg |-> <<"Insufficient stock. Available quantity:", Quantity(DB, item_id)>>]

\* C2 for the quantities the check on "quantity <= 0" lets through.
C2_InsufficientStockPositive ==
    Quiet =>
        \A item_id \in ItemIds, q \in Quantities, now \in Times :
            (HasItem(DB, item_id) /\ q > 0 /\ q > Quantity(DB, item_id)) =>
                /\ record_sale_db(DB, item_id, q, now) =
                       [db |-> DB, msg |-> <<"Insufficient stock. Available:", Quantity(DB, item_id)>>]
                /\ record_sale(DB, item_id, q, now) =
                       [db |-> DB, msg |-> <<"Insufficient stock. Available quantity:", Quantity(DB, item_id)>>]

\* C3: for every item that exists and was not edited since its creation, the
\* current quantity plus the quantities of its non-cancelled sales equals the
\* quantity it was created with.
C3_Conservation ==
    \A item_id \in ItemIds :
        (HasItem(DB, item_id) /\ baseline[item_id] # None) =>
            Quantity(DB, item_id) + ActiveSum(DB, item_id, MaxSales) = baseline[item_id][1]

\* An unedited item with stock left, an Active sale and a Cancelled sale.
C3_Witness ==
    \E item_id \in ItemIds, s \in SaleIds, t \in SaleIds :
        /\ HasItem(DB, item_id) /\ baseline[item_id] # None
        /\ Active(DB, s) /\ sales[s].item_id = item_id
        /\ Cancelled(DB, t) /\ sales[t].item_id = item_id
        /\ Quantity(DB, item_id) > 0

\* C4 as stated: however two sell requests on connections of their own
\* interleave, an item created with a quantity >= 0 never has a negative
\* quantity, and its Active sales never add up to more than that stock.
C4_NeverOversold ==
    \A item_id \in ItemIds :
        (HasItem(DB, item_id) /\ baseline[item_id] # None /\ baseline[item_id][1] >= 0) =>
            /\ Quantity(DB, item_id) >= 0
            /\ ActiveSum(DB, item_id, MaxSales) <= baseline[item_id][1]

\* The statements of the call that connection c commits are all in the file.
Committed(c) ==
    /\ pc[c] = "write" /\ pc'[c] = "idle"
    /\ LET after == [inventory |-> inventory', sales |-> sales',
                     sqlite_sequence |-> sqlite_sequence']
           row == fetched[c]
           id == req[c].id
       IN  /\ after = ExecuteAll(DB, Writes(c))
           /\ req[c].op = "sell" =>
                  /\ inventory'[id].quantity = inventory[id].quantity - req[c].qty
                  /\ \E s \in SaleIds :
                         /\ ~HasSale(DB, s) /\ Active(after, s)
                         /\ sales'[s].item_id = id /\ sales'[s].quantity = req[c].qty
           /\ (req[c].op = "cancel" /\ HasSale(DB, id)) =>
                  /\ sales'[id].cancelled
                  /\ inventory'[row.item_id].quantity =
                         inventory[row.item_id].quantity + row.quantity
           /\ (req[c].op = "uncancel" /\ HasSale(DB, id)) =>
                  /\ ~sales'[id].cancelled
                  /\ inventory'[row.item_id].quantity =
                         inventory[row.item_id].quantity - row.quantity
           /\ req[c].op = "delete" =>
                  /\ ~HasSale(after, id)
                  /\ inventory'[row.item_id].quantity =
                         inventory[row.item_id].quantity
                             + (IF row.cancelled THEN 0 ELSE row.quantity)

\* C5: the tables in the file change only by the commit of a call, and then
\* by all of its statements at once: the lowered quantity with the sale row,
\* the cancelled flag with the quantity.  A call that fails or stops between
\* its first write and its commit leaves them as they were.
C5_AllOrNothing ==
    [][dbvars' # dbvars => \E c \in Conns : Committed(c)]_vars

\* A call has made its first write and not its second: its transaction holds
\* the change, the file holds none of it, and the call may fail here.
C5_Witness ==
    \E c \in Conns :
        /\ pc[c] = "write" /\ req[c].n = 1 /\ lock = c
        /\ req[c].op \in {"sell", "cancel"}
        /\ tx[c] # DB
        /\ ENABLED Fail(c)

\* C6: for an Active sale whose item exists, cancel raises the item's quantity
\* by exactly sale.quantity and leaves the sale Cancelled; when that quantity
\* is then at least sale.quantity, the uncancel that follows at once lowers it
\* by exactly sale.quantity, and the tables are those before the cancel: the
\* quantity is back at its value and the sale is Active again.
C6_CancelUncancelRoundTrip ==
    Quiet =>
        \A s \in SaleIds :
            (Active(DB, s) /\ HasItem(DB, sales[s].item_id)) =>
                LET item_id == sales[s].item_id
                    q == sales[s].quantity
                    c == cancel_sale_db(DB, s)
                    u == uncancel_sale_db(c.db, s)
                IN  /\ c.msg = <<"Sale cancelled and inventory restored.">>
                    /\ Cancelled(c.db, s)
                    /\ Quantity(c.db, item_id) = Quantity(DB, item_id) + q
                    /\ Quantity(c.db, item_id) >= q =>
                           /\ u.msg = <<"Sale un-cancelled and inventory updated.">>
                           /\ Quantity(u.db, item_id) = Quantity(c.db, item_id) - q
                           /\ Quantity(u.db, item_id) = Quantity(DB, item_id)
                           /\ Active(u.db, s)
                           /\ u.db = DB

\* Between the two steps: a cancel has gone through on a sale whose item exists
\* and holds enough stock for the uncancel.
C6_Witness ==
    \E s \in SaleIds :
        /\ Cancelled(DB, s) /\ HasItem(DB, sales[s].item_id)
        /\ baseline[sales[s].item_id] # None
        /\ Quantity(DB, sales[s].item_id) = baseline[sales[s].item_id][1]
        /\ Quantity(DB, sales[s].item_id) >= sales[s].quantity

\* C7: cancel on a Cancelled sale answers "already cancelled" and changes
\* nothing; so after the cancel of an Active sale, a further cancel credits
\* nothing more.
C7_CancelTwice ==
    Quiet =>
        \A s \in SaleIds :
            /\ Cancelled(DB, s) =>
                   cancel_sale_db(DB, s) = [db |-> DB, msg |-> <<"Sale has already been cancelled.">>]
            /\ Active(DB, s) =>
                   LET c == cancel_sale_db(DB, s)
                   IN  cancel_sale_db(c.db, s) =
                           [db |-> c.db, msg |-> <<"Sale has already been cancelled.">>]

\* A Cancelled sale whose item exists: a second cancel would credit it again.
C7_Witness ==
    \E s \in SaleIds :
        /\ Cancelled(DB, s) /\ HasItem(DB, sales[s].item_id)
        /\ sales[s].quantity > 0

MaxToggles == 3

RECURSIVE Toggled(_, _, _)
\* The tables after at most n calls, each a cancel or an uncancel of sale s.
Toggled(db, s, n) ==
    IF n = 0 THEN {db}
    ELSE LET before == Toggled(db, s, n - 1)
         IN  before \cup {cancel_sale_db(d, s).db : d \in before}
                    \cup {uncancel_sale_db(d, s).db : d \in before}

\* C8: delete of an Active sale whose item exists raises that item's quantity
\* by exactly sale.quantity and removes the row; delete of a Cancelled sale
\* removes the row and leaves the whole inventory alone; either way nothing
\* else changes.  And a sell, any cancels and uncancels of the new sale, then
\* its delete leave the item at its quantity before the sell.
C8_DeleteRestoresOnce ==
    Quiet =>
        /\ \A s \in SaleIds :
               LET d == delete_sale_db(DB, s)
               IN  /\ (Active(DB, s) /\ HasItem(DB, sales[s].item_id)) =>
                          /\ d.msg = <<"Sale deleted permanently and inventory adjusted.">>
                          /\ d.db.inventory[sales[s].item_id] =
                                 [inventory[sales[s].item_id] EXCEPT !.quantity = @ + sales[s].quantity]
                          /\ OtherItemsSame(DB, d.db, sales[s].item_id)
                   /\ Cancelled(DB, s) =>
                          /\ d.msg = <<"Sale deleted permanently.">>
                          /\ d.db.inventory = inventory
                   /\ HasSale(DB, s) => (~HasSale(d.db, s) /\ OtherSalesSame(DB, d.db, s))
        /\ \A item_id \in ItemIds, q \in Quantities :
               (HasItem(DB, item_id) /\ 0 < q /\ q <= Quantity(DB, item_id) /\ Room(DB)) =>
                   LET s == NextRowid(DB, "sales")
                       sold == record_sale_db(DB, item_id, q, clock).db
                   IN  \A t \in Toggled(sold, s, MaxToggles) :
                           LET d == delete_sale_db(t, s).db
                           IN  /\ ~HasSale(d, s)
                               /\ d.inventory = inventory
                               /\ OtherSalesSame(DB, d, s)

\* A delete has gone through and left an unedited item, with no Active sale,
\* at the quantity it was created with.
C8_Witness ==
    \E item_id \in ItemIds :
        /\ removed # {} /\ HasItem(DB, item_id) /\ baseline[item_id] # None
        /\ ActiveSum(DB, item_id, MaxSales) = 0
        /\ Quantity(DB, item_id) = baseline[item_id][1]
        /\ Quantity(DB, item_id) > 0

\* The sales rows two tables differ in.
Changed(db, after) == {s \in SaleIds : after.sales[s] # db.sales[s]}
\* Only the cancelled flag of row s differs.
OnlyFlag(db, after, s, cancelled) ==
    /\ HasSale(db, s) /\ db.sales[s].cancelled = ~cancelled
    /\ after.sales[s] = [db.sales[s] EXCEPT !.cancelled = cancelled]

\* C9: a sell inserts its row Active; cancel changes no sales row but its own,
\* from Active to Cancelled; uncancel none but its own, from Cancelled to
\* Active; delete none but its own, which it removes; the calls on items
\* change no sales row.  A removed sale id has no row in any later state: every
\* cancel, uncancel and delete on it answers "Sale not found." and changes
\* nothing, and no sell hands the id out again.
C9_Lifecycle ==
    Quiet =>
        /\ \A s \in SaleIds :
               /\ Changed(DB, cancel_sale_db(DB, s).db) \subseteq {s}
               /\ Changed(DB, uncancel_sale_db(DB, s).db) \subseteq {s}
               /\ Changed(DB, delete_sale_db(DB, s).db) \subseteq {s}
               /\ s \in Changed(DB, cancel_sale_db(DB, s).db) =>
                      OnlyFlag(DB, cancel_sale_db(DB, s).db, s, TRUE)
               /\ s \in Changed(DB, uncancel_sale_db(DB, s).db) =>
                      OnlyFlag(DB, uncancel_sale_db(DB, s).db, s, FALSE)
               /\ s \in Changed(DB, delete_sale_db(DB, s).db) =>
                      (HasSale(DB, s) /\ ~HasSale(delete_sale_db(DB, s).db, s))
               /\ HasSale(DB, s) => ~HasSale(delete_sale_db(DB, s).db, s)
        /\ \A item_id \in ItemIds, q \in Quantities :
               Room(DB) =>
                   \A r \in Sells(DB, item_id, q, clock) :
                       \A s \in Changed(DB, r.db) :
                           /\ ~HasSale(DB, s) /\ Active(r.db, s)
                           /\ s \notin removed
        /\ \A item_id \in ItemIds, price \in Optional(Prices), quantity \in Optional(Quantities) :
               /\ update_item_db(DB, item_id, None, price, quantity, None).db.sales = sales
               /\ update_item(DB, item_id, None, price, quantity).db.sales = sales
               /\ delete_item(DB, item_id, use_pg).db.sales = sales
        /\ \A s \in removed :
               /\ ~HasSale(DB, s)
               /\ cancel_sale_db(DB, s) = [db |-> DB, msg |-> <<"Sale not found.">>]
               /\ uncancel_sale_db(DB, s) = [db |-> DB, msg |-> <<"Sale not found.">>]
               /\ delete_sale_db(DB, s) = [db |-> DB, msg |-> <<"Sale not found.">>]

\* The sale created last has been deleted, and a sell can go through: the
\* state in which an id would be handed out for the second time.
C9_Witness ==
    /\ sqlite_sequence.sales \in removed
    /\ sqlite_sequence.sales = MaxRowid(sales) + 1
    /\ Room(DB)
    /\ \E item_id \in ItemIds : HasItem(DB, item_id) /\ Quantity(DB, item_id) > 0

\* C10: uncancel of a Cancelled sale is refused, nothing changed, with
\* "Associated item not found." when its item has no row and with "Not enough
\* stock" when the item's quantity is below sale.quantity; uncancel of an
\* Active sale is refused with "Sale is not cancelled.", nothing changed.
C10_UncancelRefused ==
    Quiet =>
        \A s \in SaleIds :
            LET u == uncancel_sale_db(DB, s)
            IN  /\ (Cancelled(DB, s) /\ ~HasItem(DB, sales[s].item_id)) =>
                       u = [db |-> DB, msg |-> <<"Associated item not found.">>]
                /\ (Cancelled(DB, s) /\ HasItem(DB, sales[s].item_id)
                        /\ Quantity(DB, sales[s].item_id) < sales[s].quantity) =>
                       u = [db |-> DB, msg |-> <<"Not enough stock to uncancel this sale.">>]
                /\ Active(DB, s) => u = [db |-> DB, msg |-> <<"Sale is not cancelled.">>]

\* One Cancelled sale whose item is gone, another whose item holds less than
\* the sale took.
C10_Witness ==
    \E s \in SaleIds, t \in SaleIds :
        /\ Cancelled(DB, s) /\ ~HasItem(DB, sales[s].item_id)
        /\ Cancelled(DB, t) /\ HasItem(DB, sales[t].item_id)
        /\ 0 <= Quantity(DB, sales[t].item_id)
        /\ Quantity(DB, sales[t].item_id) < sales[t].quantity


\* The sells that are refused, and those for which the sales table has room.
SellsInRoom(db, item_id, quantity, now) ==
    IF Room(db) \/ ~HasItem(db, item_id) \/ quantity <= 0
          \/ quantity > Quantity(db, item_id)
    THEN Sells(db, item_id, quantity, now)
    ELSE {}

\* The messages with which a call reports that it did not do what was asked.
Errors ==
    {"Item with ID does not exist.", "No item found with ID", "Quantity must be positive.",
     "Insufficient stock. Available:", "Insufficient stock. Available quantity:",
     "Sale not found.", "Sale has already been cancelled.", "Sale is not cancelled.",
     "Associated item not found.", "Not enough stock to uncancel this sale.",
     "Item not found.", "Name cannot be empty."}

\* The call reported an error and the tables are as they were.
Refused(db, r) == r.msg[1] \in Errors /\ r.db = db

\* C11: in every reachable state, every call of sell, cancel, uncancel,
\* delete-sale, edit, toggleFavorite and delete-item that reports an error
\* leaves the inventory and sales tables as they were; and a missing id, a
\* quantity <= 0, a quantity above the stock, an already Cancelled sale (for
\* cancel) and an Active sale (for uncancel) are each reported as an error.
C11_ErrorsChangeNothing ==
    Quiet =>
        /\ \A item_id \in ItemIds, q \in Quantities, now \in Times :
               \A r \in SellsInRoom(DB, item_id, q, now) :
                   /\ r.msg[1] \in Errors => r.db = DB
                   /\ (~HasItem(DB, item_id) \/ q <= 0 \/ q > Quantity(DB, item_id)) =>
                          Refused(DB, r)
        /\ \A s \in SaleIds :
               /\ \A r \in {cancel_sale_db(DB, s), uncancel_sale_db(DB, s), delete_sale_db(DB, s)} :
                      /\ r.msg[1] \in Errors => r.db = DB
                      /\ ~HasSale(DB, s) => Refused(DB, r)
               /\ Cancelled(DB, s) => Refused(DB, cancel_sale_db(DB, s))
               /\ Active(DB, s) => Refused(DB, uncancel_sale_db(DB, s))
               /\ (Cancelled(DB, s) /\ (~HasItem(DB, sales[s].item_id)
                                         \/ Quantity(DB, sales[s].item_id) < sales[s].quantity)) =>
                      Refused(DB, uncancel_sale_db(DB, s))
        /\ \A item_id \in ItemIds :
               /\ \A r \in {toggle_favorite(DB, item_id), delete_item(DB, item_id, use_pg)} :
                      /\ r.msg[1] \in Errors => r.db = DB
                      /\ ~HasItem(DB, item_id) => Refused(DB, r)
               /\ \A name \in Names, price \in Prices, quantity \in Quantities,
                     image_path \in Optional(Images) :
                      LET r == edit_item(DB, item_id, name, price, quantity, image_path)
                      IN  /\ r.msg[1] \in Errors => r.db = DB
                          /\ (~HasItem(DB, item_id) \/ strip(name) = <<>>) => Refused(DB, r)
               /\ \A name \in Optional(Names), price \in Optional(Prices),
                     quantity \in Optional(Quantities) :
                      LET r == update_item(DB, item_id, name, price, quantity)
                      IN  /\ r.msg[1] \in Errors => r.db = DB
                          /\ ~HasItem(DB, item_id) => Refused(DB, r)

\* A state in which each kind of error can be met: a Cancelled sale, an Active
\* sale, an id with no item, and an item holding less than a request may ask.
C11_Witness ==
    \E s \in SaleIds, t \in SaleIds, i \in ItemIds, j \in ItemIds :
        /\ Cancelled(DB, s) /\ Active(DB, t)
        /\ HasItem(DB, i) /\ sales[s].item_id = i
        /\ Quantity(DB, i) < sales[s].quantity
        /\ ~HasItem(DB, j)


\* C12 as stated: the sales listing holds one row for every row of the sales
\* table, Cancelled ones and those of a deleted item included, the newest
\* first.
C12_ListsEverySale ==
    Quiet =>
        \A rows \in list_sales(DB) :
            /\ Len(rows) = Cardinality({s \in SaleIds : HasSale(DB, s)})
            /\ \A s \in SaleIds : HasSale(DB, s) => \E i \in DOMAIN rows : rows[i].id = s
            /\ \A i \in DOMAIN rows, j \in DOMAIN rows :
                   i < j => rows[i].timestamp >= rows[j].timestamp


\* C13: for an Active sale whose item has no row, cancel answers with its
\* message of success, sets the cancelled flag of that sale and changes
\* nothing else, no inventory row being created or modified; delete answers
\* with its message of success, removes that sale row and changes nothing else.
C13_MissingItemSkipped ==
    Quiet =>
        \A s \in SaleIds :
            (Active(DB, s) /\ ~HasItem(DB, sales[s].item_id)) =>
                /\ cancel_sale_db(DB, s) =
                       [db |-> [DB EXCEPT !.sales[s].cancelled = TRUE],
                        msg |-> <<"Sale cancelled and inventory restored.">>]
                /\ delete_sale_db(DB, s) =
                       [db |-> [DB EXCEPT !.sales[s] = NoRow],
                        msg |-> <<"Sale deleted permanently and inventory adjusted.">>]

\* An Active sale whose item has been deleted, beside an item that is there.
C13_Witness ==
    \E s \in SaleIds, i \in ItemIds :
        /\ Active(DB, s) /\ ~HasItem(DB, sales[s].item_id)
        /\ sales[s].quantity > 0
        /\ HasItem(DB, i)


\* C14 as stated: deleting an item that exists succeeds whether or not sales
\* reference it, on the backend get_connection() opened, removes that
\* inventory row and nothing else: every other item and every sale row, those
\* of the item included, are as before.
C14_DeleteItemKeepsSales ==
    Quiet =>
        \A item_id \in ItemIds :
            HasItem(DB, item_id) =>
                /\ delete_item(DB, item_id, use_pg) =
                       [db |-> [DB EXCEPT !.inventory[item_id] = NoRow],
                        msg |-> <<"deleted from inventory.", inventory[item_id].name>>]
                /\ delete_item(DB, item_id, use_pg).db.sales = sales


\* C15 as stated: creating an item with a name that is empty after trimming,
\* a negative price or a negative quantity is refused and inserts no row, from
\* the web form and from the text menu alike; so every row as create inserted
\* it has a non-empty name, a price >= 0 and a quantity >= 0.
C15_CreateValidates ==
    Quiet =>
        /\ \A name \in Names, price \in Prices \cup {0 - 1}, quantity \in Quantities,
              image_path \in Optional(Images) :
               (NextRowid(DB, "inventory") \in ItemIds
                    /\ (strip(name) = <<>> \/ price < 0 \/ quantity < 0)) =>
                   /\ add_item(DB, name, price, quantity, image_path).db = DB
                   /\ add_item(DB, name, price, quantity, image_path).msg[1] #
                          "Item added successfully."
                   /\ main_menu_add(DB, name, price, quantity).db = DB
        /\ \A item_id \in ItemIds :
               (HasItem(DB, item_id) /\ baseline[item_id] # None) =>
                   /\ inventory[item_id].name # <<>>
                   /\ inventory[item_id].price >= 0
                   /\ baseline[item_id][1] >= 0


\* The tables after a sell for each line of the cart in order, up to and
\* including the first line whose sell is refused, and none after it.
RECURSIVE StopAtFailure(_, _, _)
StopAtFailure(db, cart, nows) ==
    IF cart = <<>> THEN db
    ELSE LET r == record_sale_db(db, int(Head(cart)[1])[1], Head(cart)[2], Head(nows))
         IN  IF r.msg[1] # "Sold" THEN r.db
             ELSE StopAtFailure(r.db, Tail(cart), Tail(nows))

\* What datetime.now() reads for each line of a cart.
Readings == [1..MaxLines -> Times]

\* The sales table has room for a sale of every line of the cart.
RoomFor(db, cart) == NextRowid(db, "sales") + Len(cart) - 1 <= MaxSales

\* C16 as stated: checkout calls sell once for each cart line in order; when
\* the sell of a line is refused, the sales of the earlier lines stay and no
\* sell is made for any later line.
C16_CheckoutStopsAtFailure ==
    Quiet =>
        \A cart \in Carts, nows \in Readings :
            RoomFor(DB, cart) =>
                /\ Len(checkout_lines(DB, cart, nows).messages) = Len(cart)
                /\ checkout(DB, cart, nows).db = StopAtFailure(DB, cart, nows)


\* C17: in every step of the till and of the office, a sale row that stays
\* keeps its item_id, quantity, timestamp and total_price, so that at most its
\* cancelled flag differs; and a sale row that appears holds what the sell
\* committing in that step wrote: the item it read, its quantity > 0, the time
\* it took from the clock after its UPDATE, no later than the commit, the price
\* it read times the quantity, and cancelled = false.
C17_SaleFieldsFrozen ==
    [][\A s \in SaleIds :
           /\ (HasSale(DB, s) /\ sales'[s] # NoRow) =>
                  sales'[s] = [sales[s] EXCEPT !.cancelled = sales'[s].cancelled]
           /\ (~HasSale(DB, s) /\ sales'[s] # NoRow) =>
                  \E c \in Conns :
                      /\ pc[c] = "write" /\ pc'[c] = "idle" /\ req[c].op = "sell"
                      /\ fetched[c] # NoRow
                      /\ sales'[s].item_id = req[c].id
                      /\ sales'[s].quantity = req[c].qty /\ req[c].qty > 0
                      /\ req[c].timestamp = Some(sales'[s].timestamp)
                      /\ sales'[s].timestamp <= clock
                      /\ sales'[s].total_price = fetched[c].price * req[c].qty
                      /\ ~sales'[s].cancelled]_vars

\* A sale of two units, since Cancelled, whose item has another price now and
\* has been made a favorite: its total is still the old price times two.
C17_Witness ==
    \E s \in SaleIds :
        /\ Cancelled(DB, s) /\ HasItem(DB, sales[s].item_id)
        /\ sales[s].quantity = 2
        /\ sales[s].total_price # inventory[sales[s].item_id].price * sales[s].quantity
        /\ inventory[sales[s].item_id].favorite = 1


\* The result r of an edit of item_id left alone all that was not supplied:
\* every other item, every sale row, the ids handed out, and of the row itself
\* each field that was not supplied, favorite among them; a supplied field
\* holds what was supplied, a name without the blanks around it.
OnlySupplied(db, r, item_id, name, price, quantity, image_path) ==
    LET old == db.inventory[item_id]
        new == r.db.inventory[item_id]
    IN  /\ r.db.sales = db.sales
        /\ r.db.sqlite_sequence = db.sqlite_sequence
        /\ \A j \in ItemIds \ {item_id} : r.db.inventory[j] = db.inventory[j]
        /\ new # NoRow
        /\ new.favorite = old.favorite
        /\ new.name = (IF name = None THEN old.name ELSE strip(name[1]))
        /\ new.price = (IF price = None THEN old.price ELSE price[1])
        /\ new.quantity = (IF quantity = None THEN old.quantity ELSE quantity[1])
        /\ new.image_path = (IF image_path = None THEN old.image_path ELSE image_path)

Folded(name) == [k \in DOMAIN name |-> Lower(name[k])]

\* term is a substring of name, letter case ignored.
Contains(name, term) ==
    \E k \in 1..(Len(name) - Len(term) + 1) :
        SubSeq(Folded(name), k, k + Len(term) - 1) = Folded(term)

\* C19 as stated: a listing with a search term holds exactly the items whose
\* name contains the term as a substring, letter case ignored (all items for
\* the empty term); every favorite comes before every non-favorite, and items
\* of the same favorite flag come in alphabetical order, letter case ignored.
C19_SearchAndOrder ==
    Quiet =>
        \A term \in Terms :
            \A rows \in list_inventory(DB, term) :
                /\ {rows[k].id : k \in DOMAIN rows} =
                       {i \in ItemIds : HasItem(DB, i)
                                          /\ (term = <<>> \/ Contains(inventory[i].name, term))}
                /\ \A k \in DOMAIN rows, l \in DOMAIN rows :
                       k < l =>
                           /\ rows[k].favorite >= rows[l].favorite
                           /\ rows[k].favorite = rows[l].favorite =>
                                  NocaseLeq(rows[k].name, rows[l].name)


\* C20 as stated: however cancels and deletions of a sale on connections of
\* their own interleave, the sale's quantity goes back to its item once: an
\* item never holds more than the quantity it was created with less what its
\* Active sales took.
C20_RestoredOnce ==
    \A item_id \in ItemIds :
        (HasItem(DB, item_id) /\ baseline[item_id] # None) =>
            Quantity(DB, item_id) <= baseline[item_id][1] - ActiveSum(DB, item_id, MaxSales)


\* C21: when items are created and edited with quantities of zero or more, no
\* sequence of sells, cancels, uncancels, deletions of sales and deletions of
\* items, one call after the other, leaves an item with a negative quantity.
C21_QuantityNeverNegative ==
    \A item_id \in ItemIds : HasItem(DB, item_id) => Quantity(DB, item_id) >= 0

\* An item sold out to the last unit whose quantity was edited since it was
\* created, with one of its sales Active and another Cancelled.
C21_Witness ==
    \E item_id \in ItemIds, s \in SaleIds, t \in SaleIds :
        /\ HasItem(DB, item_id) /\ Quantity(DB, item_id) = 0
        /\ baseline[item_id] = None
        /\ Active(DB, s) /\ sales[s].item_id = item_id
        /\ Cancelled(DB, t) /\ sales[t].item_id = item_id


\* The tables once checkout has been through the first k lines of the cart.
AfterLines(db, cart, k, nows) == checkout_lines(db, SubSeq(cart, 1, k), nows).db

\* C22: a checkout leaves the session cart empty whatever each of its lines
\* came to; a line of the cart with a quantity of zero or less, which
\* add_to_cart accepts, changes no item and records no sale; and a checkout of
\* the empty cart leaves the cart and the tables as they were.
C22_CheckoutClearsCart ==
    Quiet =>
        \A nows \in Readings, cart \in {c \in Carts : Len(c) < MaxLines},
           item_id \in {<<>>} \cup Keys, qty_str \in Amounts :
            LET filled == add_to_cart(DB, cart, item_id, qty_str).cart
                r == checkout(DB, filled, nows)
            IN  RoomFor(DB, filled) =>
                    /\ filled # <<>> => r.cart = <<>>
                    /\ filled = <<>> => r.cart = <<>> /\ r.db = DB
                    /\ \A k \in 1..Len(filled) :
                           filled[k][2] <= 0 =>
                               AfterLines(DB, filled, k, nows) = AfterLines(DB, filled, k - 1, nows)

\* An item in stock that add_to_cart puts in the cart with a quantity of zero
\* or less, after a line that checkout then sells; and the same with the
\* two lines naming one item by two texts.
C22_Witness ==
    /\ pc[Caller] = "idle"
    /\ \E i \in Keys, j \in Keys, qty_str \in Amounts :
           LET filled == add_to_cart(DB, <<<<i, 1>>>>, j, qty_str).cart
               quantity == int(qty_str)[1]
               r == checkout(DB, filled, <<clock, clock>>)
           IN  /\ int(i) # None /\ int(j) # None /\ int(i) # int(j)
               /\ HasItem(DB, int(i)[1]) /\ HasItem(DB, int(j)[1])
               /\ Quantity(DB, int(j)[1]) > 0
               /\ int(qty_str) # None /\ quantity <= 0
               /\ RoomFor(DB, filled)
               /\ Len(filled) = 2 /\ filled[2] = <<j, quantity>>
               /\ r.db # DB /\ r.db.inventory[int(j)[1]] = DB.inventory[int(j)[1]]
               /\ r.cart = <<>>
    /\ \E i \in Keys, j \in Keys :
           LET filled == add_to_cart(DB, <<<<i, 1>>>>, j, <<"0">>).cart
               r == checkout(DB, filled, <<clock, clock>>)
           IN  /\ i # j /\ int(i) # None /\ int(i) = int(j)
               /\ HasItem(DB, int(i)[1]) /\ Quantity(DB, int(i)[1]) = 1
               /\ Len(filled) = 2
               /\ Quantity(r.db, int(i)[1]) = 0
               /\ r.cart = <<>>

====
